---- MODULE Spec2Model ----
(***************************************************************************)
(* The time-stepping loops of the elastodynamics notebooks:                *)
(*   - 05-Dynamics-Explicite-time-integration/Explicit_given_to_class_     *)
(*     nonlin.ipynb: explicit scheme, lumped or full mass matrix;          *)
(*   - the Newmark-beta notebook (src/unnamed/part_000, first notebook);   *)
(* and the quasi-static continuation loop of                               *)
(*   - 03-nonlinear-elasticity/hyperelasticity_given_to_class.ipynb,       *)
(*     where the Newton solve is the library's and a displacement is       *)
(*     known by the load and the outcome of the solve that produced it.    *)
(*                                                                         *)
(* Scalars.  The notebooks compute with PETSc scalars.  Exact real         *)
(* arithmetic does not fit TLC's integers (the denominators of a linear    *)
(* solve grow with every step), so a scalar is modelled by its image in    *)
(* the prime field GF(ScalarModulus) under the ring homomorphism           *)
(* n/d |-> n * d^-1.  Every rational identity satisfied by the exact       *)
(* computation is satisfied by its image, and an identity violated by the  *)
(* image is violated by the exact computation.  Times and parameters are   *)
(* kept as exact fractions <<num, den>> so that comparisons (t <= t_cutoff)*)
(* are the real ones.  Rounding of floating point is not modelled.         *)
(*                                                                         *)
(* Finite elements.  The forms mass, stiffness_linear, damping and p_ext   *)
(* are the notebooks' forms on a bar of length L cut in NumElems two-node  *)
(* elements, one displacement degree of freedom per node, node 0 clamped   *)
(* (facet tag 1) and the traction applied at the last node (facet tag 2).  *)
(* The bar has no lateral contraction (nu = 0), so that lambda_ = 0,        *)
(* 2 mu = Y and the term lambda_ ln(J) of the neo-Hookean stress vanishes.  *)
(* The neo-Hookean energy keeps its logarithm as a symbol: it is the pair   *)
(* <<r, J>> standing for r - mu h ln(J).                                    *)
(***************************************************************************)
EXTENDS Integers, Sequences, FiniteSets, TLC

\* ------------------------------------------------------------ bounds ----
\* number of elements along the bar (the notebooks use int(L/h) = 50)
NumElems == 2
\* number of time steps of a run (the notebooks use 7000 and 500); more than
\* ten, so that a run writes a second snapshot
NumSteps == 11

\* -------------------------------------------------------- scalar field --
ScalarModulus == 46337

Scalars == 0 .. (ScalarModulus - 1)

Plus(a, b) == (a + b) % ScalarModulus

Minus(a, b) == (a - b + ScalarModulus) % ScalarModulus

Times(a, b) == (a * b) % ScalarModulus

RECURSIVE Power(_, _)
Power(a, e) ==
    IF e = 0 THEN 1
    ELSE LET r == Power(a, e \div 2)
             s == Times(r, r)
         IN  IF e % 2 = 0 THEN s ELSE Times(s, a)

\* 1 / b for every nonzero scalar b (b^(p-2), by Fermat's little theorem)
Inverse == [b \in 1 .. (ScalarModulus - 1) |-> Power(b, ScalarModulus - 2)]

\* a / b; a zero divisor has no value (the division fails)
Over(a, b) == Times(a, Inverse[b])

\* the scalar of an exact fraction <<num, den>>, num >= 0, den > 0
Scalar(q) == Over(q[1] % ScalarModulus, q[2] % ScalarModulus)

\* exact fractions: comparison and product with a natural number
FracLeq(p, q) == p[1] * q[2] <= q[1] * p[2]

FracTimesNat(k, q) == <<k * q[1], q[2]>>

\* ------------------------------------------------------------- vectors --
Nodes == 0 .. NumElems

Elems == 0 .. (NumElems - 1)

Zero == [i \in Nodes |-> 0]

ones == [i \in Nodes |-> 1]

Basis(k) == [i \in Nodes |-> IF i = k THEN 1 ELSE 0]

RECURSIVE SumOver(_, _)
SumOver(f, S) ==
    IF S = {} THEN 0
    ELSE LET x == CHOOSE y \in S : TRUE
         IN  Plus(f[x], SumOver(f, S \ {x}))

\* y.axpy(alpha, x): y + alpha * x
Axpy(y, alpha, x) == [i \in Nodes |-> Plus(y[i], Times(alpha, x[i]))]

\* np.multiply: elementwise product
Multiply(x, y) == [i \in Nodes |-> Times(x[i], y[i])]

\* ---------------------------------------------------------- parameters --
\* Values the run parameters are drawn from (exact fractions <<num, den>>).
DtSet == {<<1, 1>>, <<1, 2>>}

CutoffSet == {<<1, 1>>, <<2, 1>>}

SigmaSet == {<<0, 1>>, <<1, 20>>}

EtaMSet == {<<0, 1>>, <<1, 100>>}

EtaKSet == {<<0, 1>>, <<1, 100000>>}

\* <<gamma, beta>>
NewmarkSet == {<<<<1, 2>>, <<1, 4>>>>, <<<<1, 2>>, <<0, 1>>>>, <<<<3, 4>>, <<1, 4>>>>}

VARIABLES
    notebook,         \* "explicit", "newmark" or "hyperelastic": which notebook runs
    use_linear_model, \* explicit notebook: linear or neo-Hookean stiffness
    use_lumped_mass,  \* explicit notebook: lumped or full mass matrix
    dt, t_cutoff, sigma_max, eta_m, eta_k, gamma, beta,   \* fractions
    num_steps,
    n,                \* loop index
    pc,               \* position in the loop body
    u_sol, v_sol, a_sol,  \* displacement, velocity (vit_sol), acceleration (acc_sol)
    traction,         \* traction.value, component along e_x
    u_n, v_n, a_n,    \* history: the state on entry of the current iteration
    E_elas, E_kin, E_damp,
    energies,         \* energies[k] = <<E_elas, E_kin, E_damp, E_tot>>
    displ_tip,        \* displ_tip[k]: u_sol at the tip after step k-1
    extension_strain, \* extension_strain[k]: eps_xx at x = 0.5*L after step k-1
    error,            \* "none", or the call whose exception left the loop
    stdout,           \* what print() has written
    file,             \* state of the handle "file" of time_steps_u.xdmf
    snapshots,        \* content of time_steps_u.xdmf: <<time label, u>>
    load_step,        \* hyperelastic notebook: the index i of enumerate(loads)
    rhog,             \* rhog.value[1], a fraction
    u_beam,           \* the displacement u of the beam
    u_0,              \* history: the displacement the last solve started from
    converged,        \* the flag returned by the last solver.solve(u)
    displ             \* displ[i]: end displacement recorded at load step i

params == <<notebook, use_linear_model, use_lumped_mass, dt, t_cutoff, sigma_max, eta_m, eta_k,
            gamma, beta, num_steps>>

fields == <<u_sol, v_sol, a_sol>>

entry == <<u_n, v_n, a_n>>

accumulators == <<E_elas, E_kin, E_damp, energies, displ_tip, extension_strain>>

outputs == <<stdout, file, snapshots>>

continuation == <<load_step, rhog, u_beam, u_0, converged, displ>>

vars == <<params, n, pc, fields, traction, entry, accumulators, error, outputs, continuation>>

\* ------------------------------------------------ geometry and material --
L == 1

Y == 1

rho == 1

\* Poisson ratio of the bar (no lateral contraction in one dimension)
nu == 0

mu == Over(Y, 2 * (1 + nu))

lambda_ == Over(Times(Y, nu), (1 + nu) * (1 - 2 * nu))

u_D == 0

\* size of a cell
h == Over(L, NumElems)

\* dofs on the left end of the bar
boundary_clamped_dofs == {0}

\* the node of the right end of the bar, where ds(2) lives
tip == NumElems

\* ----------------------------------------------------------------- forms --
\* ufl.sym(ufl.grad(u)) on element e
strain_displacement(u, e) == Over(Minus(u[e + 1], u[e]), h)

\* lambda_ tr(eps) I2 + 2 mu eps
stress_linear(eps) == Plus(Times(lambda_, eps), Times(Times(2, mu), eps))

stiffness_linear(u, v) ==
    SumOver([e \in Elems |->
               Times(Times(stress_linear(strain_displacement(u, e)),
                           strain_displacement(v, e)), h)], Elems)

\* F = I2 + grad(u) on element e
DeformationGradient(u, e) == Plus(1, strain_displacement(u, e))

\* diff(psi, F) of the neo-Hookean psi, mu (F - F^-T) + lambda_ ln(J) F^-T,
\* with lambda_ = 0
stress_nonlinear(u, e) ==
    LET F == DeformationGradient(u, e)
    IN  Times(mu, Minus(F, Over(1, F)))

stiffness_nonlinear(u, v) ==
    SumOver([e \in Elems |->
               Times(Times(stress_nonlinear(u, e), strain_displacement(v, e)), h)],
            Elems)

RECURSIVE ProductOver(_, _)
ProductOver(f, S) ==
    IF S = {} THEN 1
    ELSE LET x == CHOOSE y \in S : TRUE
         IN  Times(f[x], ProductOver(f, S \ {x}))

\* psi dx with psi = mu/2 (Ic - 1) - mu ln(J): the pair <<r, J>> standing for
\* r - mu h ln(J), J the product of the elements' det(F)
energy_nonlinear(u) ==
    <<SumOver([e \in Elems |->
                 Times(Times(Over(mu, 2),
                             Minus(Times(DeformationGradient(u, e),
                                         DeformationGradient(u, e)), 1)), h)],
              Elems),
      ProductOver([e \in Elems |-> DeformationGradient(u, e)], Elems)>>

\* stiffness = stiffness_linear if use_linear_model else stiffness_nonlinear
stiffness(u, v) ==
    IF use_linear_model THEN stiffness_linear(u, v) ELSE stiffness_nonlinear(u, v)

\* rho * inner(u, v) * dx, integrated exactly on every element
mass(u, v) ==
    SumOver([e \in Elems |->
               Times(Times(rho, Over(h, 6)),
                     Plus(Plus(Times(2, Times(u[e], v[e])), Times(u[e], v[e + 1])),
                          Plus(Times(u[e + 1], v[e]),
                               Times(2, Times(u[e + 1], v[e + 1])))))], Elems)

\* mutant: Rayleigh damping built on the stiffness selected for the scheme
damping_SelectedStiffness(u, v) ==
    Plus(Times(Scalar(eta_m), mass(u, v)), Times(Scalar(eta_k), stiffness(u, v)))

\* eta_m*mass(u, v) + eta_k*stiffness_linear(u, v)
damping(u, v) ==
    Plus(Times(Scalar(eta_m), mass(u, v)), Times(Scalar(eta_k), stiffness_linear(u, v)))

\* ufl.dot(traction, u) * ds(2)
p_ext(u) == Times(traction, u[tip])

\* -------------------------------------------------------------- assembly --
\* Assembly takes a form on the basis of test functions (rows) and of trial
\* functions (columns).
MatVec(mat, x) == [i \in Nodes |-> SumOver([j \in Nodes |-> Times(mat[i][j], x[j])], Nodes)]

\* mutant: set_bc that leaves the vector as it is
SetBC_NoOp(x) == x

\* dolfinx.fem.set_bc(x, [bc]): the clamped dofs take the value of bc
SetBC(x) == [i \in Nodes |-> IF i \in boundary_clamped_dofs THEN u_D ELSE x[i]]

\* Direct solve (LU) of A x = b by elimination and back substitution.
RECURSIVE Eliminate(_, _, _)
Eliminate(mat, rhs, k) ==
    IF k = NumElems THEN <<mat, rhs>>
    ELSE LET factor == [i \in Nodes |-> IF i > k THEN Over(mat[i][k], mat[k][k]) ELSE 0]
             mat2 == [i \in Nodes |->
                      IF i > k
                      THEN [j \in Nodes |-> Minus(mat[i][j], Times(factor[i], mat[k][j]))]
                      ELSE mat[i]]
             rhs2 == [i \in Nodes |->
                      IF i > k THEN Minus(rhs[i], Times(factor[i], rhs[k])) ELSE rhs[i]]
         IN  Eliminate(mat2, rhs2, k + 1)

RECURSIVE BackSubstitute(_, _, _, _)
BackSubstitute(U, c, k, x) ==
    IF k < 0 THEN x
    ELSE LET s == SumOver([j \in Nodes |-> IF j > k THEN Times(U[k][j], x[j]) ELSE 0],
                          Nodes)
             xk == Over(Minus(c[k], s), U[k][k])
         IN  BackSubstitute(U, c, k - 1, [x EXCEPT ![k] = xk])

LUSolve(mat, rhs) ==
    LET Ub == Eliminate(mat, rhs, 0)
    IN  BackSubstitute(Ub[1], Ub[2], NumElems, Zero)

\* mutant: the linear problem built without bcs=[bc]
LinearProblemSolve_NoBC(mat, rhs) == LUSolve(mat, rhs)

\* LinearProblem(a, L, bcs=[bc]).solve(): rows and columns of the clamped dofs
\* are replaced by the identity, the right-hand side is lifted and set to the
\* boundary value, and the system is solved.
LinearProblemSolve(mat, rhs) ==
    LET clamped(i) == i \in boundary_clamped_dofs
        matbc == [i \in Nodes |-> [j \in Nodes |->
                  IF clamped(i) \/ clamped(j)
                  THEN (IF i = j THEN 1 ELSE 0)
                  ELSE mat[i][j]]]
        lifted == [i \in Nodes |->
                     Minus(rhs[i], SumOver([j \in Nodes |->
                                            IF clamped(j) THEN Times(mat[i][j], u_D)
                                            ELSE 0], Nodes))]
    IN  LUSolve(matbc, SetBC(lifted))

\* Lumped mass matrix: row sums of the mass matrix, inverted elementwise
M_lumped_inv == [i \in Nodes |-> Over(1, mass(ones, Basis(i)))]

\* mutant: the mass matrix replaced by its lumped (row-sum) diagonal
MassMatrix_Lumped ==
    [i \in Nodes |-> [j \in Nodes |-> IF i = j THEN mass(ones, Basis(i)) ELSE 0]]

\* matrix of the bilinear form mass(u, u_bar)
MassMatrix == [i \in Nodes |-> [j \in Nodes |-> mass(Basis(j), Basis(i))]]

\* -------------------------------------------------------- load schedule --
\* mutant: the ramp never cut off
load_eval_NoCutoff(t) == Over(Times(Scalar(sigma_max), Scalar(t)), Scalar(t_cutoff))

\* mutant: strict comparison with the cutoff time
load_eval_Strict(t) ==
    IF ~FracLeq(t_cutoff, t)
    THEN Over(Times(Scalar(sigma_max), Scalar(t)), Scalar(t_cutoff))
    ELSE 0

\* mutant: the ramp without its amplitude sigma_max
load_eval_NoAmplitude(t) ==
    IF FracLeq(t, t_cutoff)
    THEN Over(Scalar(t), Scalar(t_cutoff))
    ELSE 0

load_eval(t) ==
    IF FracLeq(t, t_cutoff)
    THEN Over(Times(Scalar(sigma_max), Scalar(t)), Scalar(t_cutoff))
    ELSE 0

\* the time (n+1)*dt
NextTime == FracTimesNat(n + 1, dt)

\* ------------------------------------------------------- explicit scheme --
\* mutant: the damping response added instead of subtracted
f_load_PlusDamping(u_bar) ==
    Plus(Minus(p_ext(u_bar), stiffness(u_sol, u_bar)), damping(v_sol, u_bar))

\* f_load = p_ext(u_bar) - stiffness(u_sol,u_bar) - damping(v_sol,u_bar)
f_load(u_bar) ==
    Minus(Minus(p_ext(u_bar), stiffness(u_sol, u_bar)), damping(v_sol, u_bar))

\* af = assemble_vector(form(f_load))
af == [i \in Nodes |-> f_load(Basis(i))]

\* eps_xx.interpolate(eps_xx_expr): the strain of u_sol, one value per cell
eps_xx == [e \in Elems |-> strain_displacement(u_sol, e)]

\* the cell in which evaluate_at_points finds the point x = 0.5*L
ProbeCell == NumElems \div 2

\* The value 0 of an elastic or total energy: 0 itself, and in the neo-Hookean
\* runs the pair of r = 0 and J = 1, that is 0 - mu*h*ln(1).
ZeroEnergy == IF use_linear_model THEN 0 ELSE <<0, 1>>

\* a row of np.zeros((num_steps+1, 4))
ZeroRow == <<ZeroEnergy, 0, 0, ZeroEnergy>>

\* the energies of the current state, and the row stored in energies[n+1]
ElasticEnergy ==
    IF use_linear_model
    THEN Times(Over(1, 2), stiffness(u_sol, u_sol))
    ELSE energy_nonlinear(u_sol)

KineticEnergy == Times(Over(1, 2), mass(v_sol, v_sol))

\* mutant: the dissipated energy of the step taken off the accumulator
Dissipation_Negated == Minus(0, Times(Scalar(dt), damping(v_sol, v_sol)))

\* mutant: the dissipated power added without the factor dt
Dissipation_NoTimeStep == damping(v_sol, v_sol)

\* dt*assemble_scalar(form(damping(v_sol, v_sol)))
Dissipation == Times(Scalar(dt), damping(v_sol, v_sol))

\* mutant: the histories written at index n
Postprocess_CurrentIndex ==
    /\ extension_strain' = [extension_strain EXCEPT ![n] = eps_xx[ProbeCell]]
    /\ displ_tip' = [displ_tip EXCEPT ![n] = u_sol[tip]]
    /\ E_elas' = ElasticEnergy
    /\ E_kin' = KineticEnergy
    /\ E_damp' = Plus(E_damp, Dissipation)
    /\ energies' = [energies EXCEPT
                      ![n] = <<E_elas', E_kin', E_damp',
                               IF use_linear_model
                               THEN Plus(Plus(E_elas', E_kin'), E_damp')
                               ELSE <<Plus(Plus(E_elas'[1], E_kin'), E_damp'),
                                      E_elas'[2]>>>>]

\* extension_strain[n+1], displ_tip[n+1], the energies and energies[n+1, :]
Postprocess ==
    /\ extension_strain' = [extension_strain EXCEPT ![n + 1] = eps_xx[ProbeCell]]
    /\ displ_tip' = [displ_tip EXCEPT ![n + 1] = u_sol[tip]]
    /\ E_elas' = ElasticEnergy
    /\ E_kin' = KineticEnergy
    /\ E_damp' = Plus(E_damp, Dissipation)
    /\ energies' = [energies EXCEPT
                      ![n + 1] = <<E_elas', E_kin', E_damp',
                                   IF use_linear_model
                                   THEN Plus(Plus(E_elas', E_kin'), E_damp')
                                   ELSE <<Plus(Plus(E_elas'[1], E_kin'), E_damp'),
                                          E_elas'[2]>>>>]

\* if (n%10 == 0): with XDMFFile(..., "a") as file: file.write_function(u_sol, (n+1)*dt)
\* mutant: the file opened in truncating mode whatever the mode asked for
XDMFOpen_Truncating(mode, content) == <<>>

\* XDMFFile(comm, path, mode): the content seen through the new handle;
\* "w" creates or truncates the file, "a" keeps what it holds
XDMFOpen(mode, content) == IF mode = "w" THEN <<>> ELSE content

WriteSnapshot ==
    snapshots' = IF n % 10 = 0
                 THEN Append(XDMFOpen("a", snapshots), <<NextTime, u_sol>>)
                 ELSE snapshots

\* if (n%every == 0): print(n, ' / ', num_steps)
PrintProgress(every) ==
    stdout' = IF n % every = 0 THEN Append(stdout, <<" / ", n, num_steps>>) ELSE stdout

\* mutant: the loop left one step before range(num_steps) is exhausted
NextIteration_EarlyExit ==
    /\ n' = n + 1
    /\ pc' = IF n + 2 < num_steps
             THEN (IF notebook = "explicit" THEN "traction" ELSE "predictor")
             ELSE "done"

\* for n in range(num_steps): the next index, or the end of the loop
NextIteration ==
    /\ n' = n + 1
    /\ pc' = IF n + 1 < num_steps
             THEN (IF notebook = "explicit" THEN "traction" ELSE "predictor")
             ELSE "done"

\* mutant: the traction set to the load at the start of the step, t = n*dt
ExplicitTraction_CurrentTime ==
    /\ notebook = "explicit" /\ pc = "traction"
    /\ traction' = load_eval(FracTimesNat(n, dt))
    /\ u_n' = u_sol /\ v_n' = v_sol /\ a_n' = a_sol
    /\ pc' = IF use_lumped_mass THEN "accel" ELSE "solve"
    /\ PrintProgress(500)
    /\ UNCHANGED <<params, n, fields, accumulators, error, file, snapshots>>
    /\ UNCHANGED continuation

\* traction.value = (load_eval((n+1)*dt), 0)
ExplicitTraction ==
    /\ notebook = "explicit" /\ pc = "traction"
    /\ traction' = load_eval(NextTime)
    /\ u_n' = u_sol /\ v_n' = v_sol /\ a_n' = a_sol
    /\ pc' = IF use_lumped_mass THEN "accel" ELSE "solve"
    /\ PrintProgress(500)
    /\ UNCHANGED <<params, n, fields, accumulators, error, file, snapshots>>
    /\ UNCHANGED continuation

\* af = assemble_vector(f_load); a_sol = M_lumped_inv * af
LumpedAcceleration ==
    /\ notebook = "explicit" /\ pc = "accel"
    /\ a_sol' = Multiply(M_lumped_inv, af)
    /\ pc' = "set_bc"
    /\ UNCHANGED <<params, n, u_sol, v_sol, traction, entry, accumulators, error, outputs>>
    /\ UNCHANGED continuation

\* mutant: set_bc on u_sol and v_sol only, the acceleration is left as computed
ReimposeBC_ForgetAcceleration ==
    /\ notebook = "explicit" /\ pc = "set_bc"
    /\ u_sol' = SetBC(u_sol)
    /\ v_sol' = SetBC(v_sol)
    /\ pc' = "corrector"
    /\ UNCHANGED <<params, n, a_sol, traction, entry, accumulators, error, outputs>>
    /\ UNCHANGED continuation

\* set_bc on u_sol, v_sol, a_sol
ReimposeBC ==
    /\ notebook = "explicit" /\ pc = "set_bc"
    /\ u_sol' = SetBC(u_sol)
    /\ v_sol' = SetBC(v_sol)
    /\ a_sol' = SetBC(a_sol)
    /\ pc' = "corrector"
    /\ UNCHANGED <<params, n, traction, entry, accumulators, error, outputs>>
    /\ UNCHANGED continuation

\* a_sol = problem.solve(), problem = LinearProblem(mass(u,u_bar), f_load, bcs=[bc])
FullMassSolve ==
    /\ notebook = "explicit" /\ pc = "solve"
    /\ a_sol' = LinearProblemSolve(MassMatrix, af)
    /\ pc' = "corrector"
    /\ UNCHANGED <<params, n, u_sol, v_sol, traction, entry, accumulators, error, outputs>>
    /\ UNCHANGED continuation

\* problem.solve() raises: nothing catches the exception, the cell stops
ExplicitSolveRaises ==
    /\ notebook = "explicit" /\ pc = "solve"
    /\ pc' = "raised"
    /\ error' = "problem.solve"
    /\ UNCHANGED <<params, n, fields, traction, entry, accumulators, outputs>>
    /\ UNCHANGED continuation

\* mutant: the displacement updated first, with the velocity of the previous step
ExplicitCorrector_OldVelocity ==
    /\ notebook = "explicit" /\ pc = "corrector"
    /\ u_sol' = Axpy(u_sol, Scalar(dt), v_sol)
    /\ v_sol' = Axpy(v_sol, Scalar(dt), a_sol)
    /\ pc' = "post"
    /\ UNCHANGED <<params, n, a_sol, traction, entry, accumulators, error, outputs>>
    /\ UNCHANGED continuation

\* v_sol.axpy(dt, a_sol); u_sol.axpy(dt, v_sol)
ExplicitCorrector ==
    /\ notebook = "explicit" /\ pc = "corrector"
    /\ v_sol' = Axpy(v_sol, Scalar(dt), a_sol)
    /\ u_sol' = Axpy(u_sol, Scalar(dt), v_sol')
    /\ pc' = "post"
    /\ UNCHANGED <<params, n, a_sol, traction, entry, accumulators, error, outputs>>
    /\ UNCHANGED continuation

\* rmin = 0.3*h, as an exact fraction
rmin == <<3 * L, 10 * NumElems>>

\* np.sqrt(Y/rho.value), for Y/rho a perfect square
WaveSpeed == CHOOSE c \in 1 .. Y : c * c * rho = Y

\* dt_crit = rmin/np.sqrt(Y/rho.value)
dt_crit == <<rmin[1], rmin[2] * WaveSpeed>>

\* mutant: the loop left after the first step when dt exceeds dt_crit
ExplicitPost_AbortAboveCritical ==
    /\ notebook = "explicit" /\ pc = "post"
    /\ WriteSnapshot
    /\ Postprocess
    /\ n' = n + 1
    /\ pc' = IF n + 1 < num_steps /\ FracLeq(dt, dt_crit) THEN "traction" ELSE "done"
    /\ UNCHANGED <<params, fields, traction, entry, error, stdout, file>>
    /\ UNCHANGED continuation

\* snapshot of u_sol every 10th step, then the energies of the step
ExplicitPost ==
    /\ notebook = "explicit" /\ pc = "post"
    /\ WriteSnapshot
    /\ Postprocess
    /\ NextIteration
    /\ UNCHANGED <<params, fields, traction, entry, error, stdout, file>>
    /\ UNCHANGED continuation

\* after the loop: print("Critical time step ..."); print("Used time step ...")
ExplicitReport ==
    /\ notebook = "explicit" /\ pc = "done"
    /\ stdout' = stdout \o <<<<"Critical time step", dt_crit>>, <<"Used time step", dt>>>>
    /\ pc' = "finished"
    /\ UNCHANGED <<params, n, fields, traction, entry, accumulators, error, file, snapshots>>
    /\ UNCHANGED continuation

\* -------------------------------------------------------- Newmark scheme --
\* mutant: the stiffness term of [A] weighted by beta dt instead of beta dt^2
A_LinearDt(acc, v) ==
    Plus(mass(acc, v),
         Plus(Times(Times(Scalar(gamma), Scalar(dt)), damping(acc, v)),
              Times(Times(Scalar(beta), Scalar(dt)), stiffness(acc, v))))

\* [A] = [M] + gamma dt [C] + beta dt^2 [K]
A(acc, v) ==
    Plus(mass(acc, v),
         Plus(Times(Times(Scalar(gamma), Scalar(dt)), damping(acc, v)),
              Times(Times(Scalar(beta), Times(Scalar(dt), Scalar(dt))),
                    stiffness(acc, v))))

\* right-hand side of Eq4; u_sol and v_sol hold the predicted values
f_load_newmark(v) ==
    Minus(Minus(p_ext(v), stiffness(u_sol, v)), damping(v_sol, v))

\* matrix and right-hand side of the linear problem of Eq4
A_matrix == [i \in Nodes |-> [j \in Nodes |-> A(Basis(j), Basis(i))]]

b_newmark == [i \in Nodes |-> f_load_newmark(Basis(i))]

\* hat u = u + dt v + dt^2/2 (1 - 2 beta) a
PredictDisplacement(u, v, a) ==
    Axpy(Axpy(u, Scalar(dt), v),
         Times(Over(Times(Scalar(dt), Scalar(dt)), 2),
               Minus(1, Times(2, Scalar(beta)))), a)

\* hat v = v + dt (1 - gamma) a
PredictVelocity(v, a) ==
    Axpy(v, Times(Scalar(dt), Minus(1, Scalar(gamma))), a)

\* mutant: the corrector of the displacement weighted by dt beta
CorrectDisplacement_LinearDt(u, a) == Axpy(u, Times(Scalar(dt), Scalar(beta)), a)

\* EQ5: u = hat u + dt^2 beta a
CorrectDisplacement(u, a) == Axpy(u, Times(Times(Scalar(dt), Scalar(dt)), Scalar(beta)), a)

\* EQ6: v = hat v + dt gamma a
CorrectVelocity(v, a) == Axpy(v, Times(Scalar(dt), Scalar(gamma)), a)

\* mutant: the velocity predicted first, the displacement from the predicted velocity
NewmarkPredictor_VelocityFirst ==
    /\ notebook = "newmark" /\ pc = "predictor"
    /\ u_n' = u_sol /\ v_n' = v_sol /\ a_n' = a_sol
    /\ v_sol' = PredictVelocity(v_sol, a_sol)
    /\ u_sol' = PredictDisplacement(u_sol, v_sol', a_sol)
    /\ pc' = "traction"
    /\ PrintProgress(100)
    /\ UNCHANGED <<params, n, a_sol, traction, accumulators, error, file, snapshots>>
    /\ UNCHANGED continuation

\* u_sol.vector.axpy(...) for hat u, then vit_sol.vector.axpy(...) for hat v
NewmarkPredictor ==
    /\ notebook = "newmark" /\ pc = "predictor"
    /\ u_n' = u_sol /\ v_n' = v_sol /\ a_n' = a_sol
    /\ u_sol' = PredictDisplacement(u_sol, v_sol, a_sol)
    /\ v_sol' = PredictVelocity(v_sol, a_sol)
    /\ pc' = "traction"
    /\ PrintProgress(100)
    /\ UNCHANGED <<params, n, a_sol, traction, accumulators, error, file, snapshots>>
    /\ UNCHANGED continuation

\* Update the traction value: F(t_{n+1})
NewmarkTraction ==
    /\ notebook = "newmark" /\ pc = "traction"
    /\ traction' = load_eval(NextTime)
    /\ pc' = "solve"
    /\ UNCHANGED <<params, n, fields, entry, accumulators, error, outputs>>
    /\ UNCHANGED continuation

\* acc_sol = problem.solve(), problem = LinearProblem(A(acc,v), f_load, bcs=[bc])
NewmarkSolve ==
    /\ notebook = "newmark" /\ pc = "solve"
    /\ a_sol' = LinearProblemSolve(A_matrix, b_newmark)
    /\ pc' = "corrector"
    /\ UNCHANGED <<params, n, u_sol, v_sol, traction, entry, accumulators, error, outputs>>
    /\ UNCHANGED continuation

\* mutant: the exception of problem.solve() caught and the solve tried again
NewmarkSolveRaises_Retried ==
    /\ notebook = "newmark" /\ pc = "solve"
    /\ pc' = "solve"
    /\ error' = "problem.solve"
    /\ UNCHANGED <<params, n, fields, traction, entry, accumulators, outputs>>
    /\ UNCHANGED continuation

\* problem.solve() raises: nothing catches the exception, the cell stops
NewmarkSolveRaises ==
    /\ notebook = "newmark" /\ pc = "solve"
    /\ pc' = "raised"
    /\ error' = "problem.solve"
    /\ UNCHANGED <<params, n, fields, traction, entry, accumulators, outputs>>
    /\ UNCHANGED continuation

NewmarkCorrector ==
    /\ notebook = "newmark" /\ pc = "corrector"
    /\ u_sol' = CorrectDisplacement(u_sol, a_sol)
    /\ v_sol' = CorrectVelocity(v_sol, a_sol)
    /\ pc' = "post"
    /\ UNCHANGED <<params, n, a_sol, traction, entry, accumulators, error, outputs>>
    /\ UNCHANGED continuation

\* What file.write_function does on the handle "file".  The handle was closed
\* when the with block that wrote the mesh ended; a write through a closed
\* handle may still reach the file, be lost, or raise.
WriteOutcomes ==
    IF file = "open" THEN {"written"} ELSE {"written", "dropped", "raised"}

\* the energies of the step, then the snapshot of u_sol every 10th step
NewmarkPost ==
    /\ notebook = "newmark" /\ pc = "post"
    /\ Postprocess
    /\ IF n % 10 = 0
       THEN \E outcome \in WriteOutcomes :
               /\ snapshots' = IF outcome = "written"
                                THEN Append(snapshots, <<NextTime, u_sol>>)
                                ELSE snapshots
               /\ IF outcome = "raised"
                  THEN n' = n /\ pc' = "raised" /\ error' = "file.write_function"
                  ELSE NextIteration /\ error' = error
       ELSE snapshots' = snapshots /\ NextIteration /\ error' = error
    /\ UNCHANGED <<params, fields, traction, entry, stdout, file>>
    /\ UNCHANGED continuation

\* after the loop: file.close()
NewmarkClose ==
    /\ notebook = "newmark" /\ pc = "done"
    /\ file' = "closed"
    /\ pc' = "finished"
    /\ UNCHANGED <<params, n, fields, traction, entry, accumulators, error, stdout, snapshots>>
    /\ UNCHANGED continuation

\* ------------------------- hyperelastic notebook: continuation loop ---
\* np.linspace(0, 0.01, 10) and np.zeros(10)
NumLoads == 10

\* loads = np.linspace(0, 0.01, 10), as exact fractions
loads == [k \in 0 .. (NumLoads - 1) |-> <<k, 100 * (NumLoads - 1)>>]

\* A displacement of the beam is known by how it was obtained and under which
\* load: the zero field, the field a converged Newton solve returned, or the
\* last iterate of a solve that did not converge.
ZeroField == <<"zero", <<0, 1>>>>

Solution(load) == <<"solution", load>>

Iterate(load) == <<"iterate", load>>

\* the entries of np.zeros(10)
ZeroScalar == <<"0.0", ZeroField>>

\* assemble_scalar(form(u[1]*ds(2)))/d
EndDisplacement(w) == IF w = ZeroField THEN ZeroScalar ELSE <<"u[1]*ds(2)/d", w>>

\* what the dynamics notebooks keep fixed
dynamics == <<params, n, fields, traction, entry, accumulators, file, snapshots>>

\* mutant: the displacement reset at the start of the cell is kept as found
ContinuationSetup_NoReset ==
    /\ notebook = "hyperelastic" /\ pc = "reset"
    /\ displ' = [k \in 0 .. (NumLoads - 1) |-> ZeroScalar]
    /\ load_step' = 0
    /\ pc' = "newton"
    /\ UNCHANGED <<dynamics, error, stdout, rhog, u_beam, u_0, converged>>

\* loads = ...; displ = np.zeros(10); u.x.array[:] = 0.0
ContinuationSetup ==
    /\ notebook = "hyperelastic" /\ pc = "reset"
    /\ displ' = [k \in 0 .. (NumLoads - 1) |-> ZeroScalar]
    /\ u_beam' = ZeroField
    /\ load_step' = 0
    /\ pc' = "newton"
    /\ UNCHANGED <<dynamics, error, stdout, rhog, u_0, converged>>

\* mutant: every load step solved from the zero displacement
NewtonConverges_ColdStart ==
    /\ notebook = "hyperelastic" /\ pc = "newton"
    /\ rhog' = <<-loads[load_step][1], loads[load_step][2]>>
    /\ u_0' = ZeroField
    /\ u_beam' = Solution(loads[load_step])
    /\ converged' = TRUE
    /\ pc' = "record"
    /\ UNCHANGED <<dynamics, error, stdout, load_step, displ>>

\* rhog.value[1] = -t; num_its, converged = solver.solve(u), Newton converging
NewtonConverges ==
    /\ notebook = "hyperelastic" /\ pc = "newton"
    /\ rhog' = <<-loads[load_step][1], loads[load_step][2]>>
    /\ u_0' = u_beam
    /\ u_beam' = Solution(loads[load_step])
    /\ converged' = TRUE
    /\ pc' = "record"
    /\ UNCHANGED <<dynamics, error, stdout, load_step, displ>>

\* solver.solve(u) returns with converged = False, u left at the last iterate
NewtonStalls ==
    /\ notebook = "hyperelastic" /\ pc = "newton"
    /\ rhog' = <<-loads[load_step][1], loads[load_step][2]>>
    /\ u_0' = u_beam
    /\ u_beam' = Iterate(loads[load_step])
    /\ converged' = FALSE
    /\ pc' = "record"
    /\ UNCHANGED <<dynamics, error, stdout, load_step, displ>>

\* solver.solve(u) raises (error_on_nonconvergence): the cell stops
NewtonRaises ==
    /\ notebook = "hyperelastic" /\ pc = "newton"
    /\ rhog' = <<-loads[load_step][1], loads[load_step][2]>>
    /\ u_0' = u_beam
    /\ u_beam' = Iterate(loads[load_step])
    /\ pc' = "stopped"
    /\ error' = "solver.solve"
    /\ UNCHANGED <<dynamics, stdout, load_step, converged, displ>>

\* displ[i] = assemble_scalar(form(u[1]*ds(2)))/d
RecordDisplacement ==
    /\ notebook = "hyperelastic" /\ pc = "record"
    /\ displ' = [displ EXCEPT ![load_step] = EndDisplacement(u_beam)]
    /\ pc' = "assert"
    /\ UNCHANGED <<dynamics, error, stdout, load_step, rhog, u_beam, u_0, converged>>

\* mutant: the loop goes on whatever the solver returned
AssertConverged_Ignored ==
    /\ notebook = "hyperelastic" /\ pc = "assert"
    /\ stdout' = Append(stdout, <<"Time step", load_step, rhog, displ[load_step]>>)
    /\ load_step' = IF load_step + 1 < NumLoads THEN load_step + 1 ELSE load_step
    /\ pc' = IF load_step + 1 < NumLoads THEN "newton" ELSE "loads_done"
    /\ UNCHANGED <<dynamics, error, rhog, u_beam, u_0, converged, displ>>

\* assert(converged); u.x.scatter_forward(); print(...); then the next load
AssertConverged ==
    /\ notebook = "hyperelastic" /\ pc = "assert"
    /\ IF converged
       THEN /\ stdout' = Append(stdout, <<"Time step", load_step, rhog, displ[load_step]>>)
            /\ load_step' = IF load_step + 1 < NumLoads THEN load_step + 1 ELSE load_step
            /\ pc' = IF load_step + 1 < NumLoads THEN "newton" ELSE "loads_done"
            /\ error' = error
       ELSE /\ pc' = "stopped"
            /\ error' = "assert(converged)"
            /\ UNCHANGED <<stdout, load_step>>
    /\ UNCHANGED <<dynamics, rhog, u_beam, u_0, converged, displ>>

\* ------------------------------------------------------- specification ---
InitState ==
    /\ u_sol = Zero /\ v_sol = Zero /\ a_sol = Zero
    /\ u_n = Zero /\ v_n = Zero /\ a_n = Zero
    /\ traction = 0
    /\ E_elas = ZeroEnergy /\ E_kin = 0 /\ E_damp = 0
    /\ energies = [k \in 0 .. num_steps |-> ZeroRow]
    /\ displ_tip = [k \in 0 .. num_steps |-> 0]
    /\ extension_strain = [k \in 0 .. num_steps |-> 0]
    /\ n = 0
    /\ error = "none"
    /\ stdout = <<>>
    /\ file = "closed"
    /\ snapshots = <<>>

\* the continuation variables outside the hyperelastic notebook
ContinuationIdle ==
    /\ load_step = 0
    /\ rhog = <<0, 1>>
    /\ u_beam = ZeroField /\ u_0 = ZeroField
    /\ converged = FALSE
    /\ displ = <<>>

DynamicsInit ==
    /\ notebook \in {"explicit", "newmark"}
    /\ use_linear_model \in IF notebook = "explicit" THEN BOOLEAN ELSE {TRUE}
    /\ use_lumped_mass \in IF notebook = "explicit" THEN BOOLEAN ELSE {FALSE}
    /\ dt \in DtSet
    /\ t_cutoff \in CutoffSet
    /\ sigma_max \in SigmaSet
    /\ eta_m \in EtaMSet
    /\ eta_k \in EtaKSet
    /\ \E gb \in IF notebook = "newmark" THEN NewmarkSet ELSE {<<<<1, 2>>, <<1, 4>>>>} :
          gamma = gb[1] /\ beta = gb[2]
    /\ num_steps = NumSteps
    /\ InitState
    /\ pc = IF notebook = "explicit" THEN "traction" ELSE "predictor"
    /\ ContinuationIdle

\* The hyperelastic notebook when the continuation cell starts: the cells
\* before it have solved the beam with rhog.value[1] = 0 and then -0.005.
ContinuationInit ==
    /\ notebook = "hyperelastic"
    /\ use_linear_model = FALSE /\ use_lumped_mass = FALSE
    /\ dt = <<1, 1>> /\ t_cutoff = <<1, 1>> /\ sigma_max = <<1, 20>>
    /\ eta_m = <<1, 100>> /\ eta_k = <<1, 100000>>
    /\ gamma = <<1, 2>> /\ beta = <<1, 4>>
    /\ num_steps = NumSteps
    /\ InitState
    /\ pc = "reset"
    /\ load_step = 0
    /\ rhog = <<-1, 200>>
    /\ u_beam = Solution(<<1, 200>>) /\ u_0 = ZeroField
    /\ converged \in BOOLEAN
    /\ displ = <<>>

Init == DynamicsInit \/ ContinuationInit

Next ==
    \/ ExplicitTraction
    \/ LumpedAcceleration
    \/ ReimposeBC
    \/ FullMassSolve
    \/ ExplicitSolveRaises
    \/ ExplicitCorrector
    \/ ExplicitPost
    \/ ExplicitReport
    \/ NewmarkPredictor
    \/ NewmarkTraction
    \/ NewmarkSolve
    \/ NewmarkSolveRaises
    \/ NewmarkCorrector
    \/ NewmarkPost
    \/ NewmarkClose
    \/ ContinuationSetup
    \/ NewtonConverges
    \/ NewtonStalls
    \/ NewtonRaises
    \/ RecordDisplacement
    \/ AssertConverged

Spec == Init /\ [][Next]_vars

\* The runs whose progress is followed to the end of the cell: every variant
\* of the two notebooks and every time step, with one load and one damping.
FairInit ==
    /\ Init
    /\ t_cutoff = <<1, 1>>
    /\ sigma_max = <<1, 20>>
    /\ eta_m = <<1, 100>>
    /\ eta_k = <<1, 100000>>

\* The notebook's cells run to their end: a step that can be taken is taken.
FairSpec == FairInit /\ [][Next]_vars /\ WF_vars(Next)

\* ------------------------------------------------------------- claims ---
\* Matrices and load vector of the discretized equation of motion.
Mmat == [i \in Nodes |-> [j \in Nodes |-> mass(Basis(j), Basis(i))]]

Kmat == [i \in Nodes |-> [j \in Nodes |-> stiffness_linear(Basis(j), Basis(i))]]

Cmat == [i \in Nodes |-> [j \in Nodes |-> damping(Basis(j), Basis(i))]]

Fext == [i \in Nodes |-> IF i = tip THEN traction ELSE 0]

FreeDofs == Nodes \ boundary_clamped_dofs

\* K u: the internal force of the displacement u (the neo-Hookean internal
\* force when the nonlinear model is selected)
InternalForce(u) ==
    [i \in Nodes |->
       IF use_linear_model THEN MatVec(Kmat, u)[i] ELSE stiffness_nonlinear(u, Basis(i))]

\* F(t_{n+1}) - K u - C v for the given displacement and velocity
NetForce(u, v) ==
    [i \in Nodes |-> Minus(Minus(Fext[i], InternalForce(u)[i]), MatVec(Cmat, v)[i])]

\* M a + C v + K u - F of the current state
Residual ==
    [i \in Nodes |->
       Minus(Plus(Plus(MatVec(Mmat, a_sol)[i], MatVec(Cmat, v_sol)[i]),
                  MatVec(Kmat, u_sol)[i]), Fext[i])]

\* C1: in every scheme, after the corrector of every step, every clamped degree
\* of freedom of the displacement holds its prescribed value u_D = 0.
C1_ClampedAfterCorrector ==
    pc = "post" => \A c \in boundary_clamped_dofs : u_sol[c] = u_D

C1_Witness ==
    /\ pc = "post" /\ n = num_steps - 1
    /\ notebook = "newmark"
    /\ u_sol[tip] # 0 /\ a_sol[tip] # 0

\* C2: in the explicit lumped-mass step the acceleration just computed is, at
\* every degree of freedom i, M_lumped_inv[i] * (F(t_{n+1}) - K u_n - C v_n)[i].
C2_LumpedAcceleration ==
    (notebook = "explicit" /\ pc = "set_bc") =>
        /\ u_sol = u_n /\ v_sol = v_n
        /\ \A i \in Nodes :
              a_sol[i] = Times(M_lumped_inv[i], NetForce(u_n, v_n)[i])

C2_Witness ==
    /\ notebook = "explicit" /\ pc = "set_bc" /\ n >= 1
    /\ eta_m[1] # 0 /\ eta_k[1] # 0
    /\ traction # 0
    /\ \A i \in Nodes : a_sol[i] # 0
    /\ \A i \in FreeDofs : v_n[i] # 0 /\ u_n[i] # 0

\* C3: the explicit corrector gives v_{n+1} = v_n + dt a_{n+1} and
\* u_{n+1} = u_n + dt v_{n+1}: the displacement uses the updated velocity.
C3_CorrectorOrder ==
    (notebook = "explicit" /\ pc = "post") =>
        \A i \in Nodes :
           /\ v_sol[i] = Plus(v_n[i], Times(Scalar(dt), a_sol[i]))
           /\ u_sol[i] = Plus(u_n[i], Times(Scalar(dt), v_sol[i]))

C3_Witness ==
    /\ notebook = "explicit" /\ pc = "post" /\ n >= 1
    /\ \E i \in FreeDofs : a_sol[i] # 0 /\ v_n[i] # 0 /\ v_sol[i] # v_n[i]

\* C4 (as stated): after a Newmark step the new state satisfies
\* M a + C v + K u = F(t_{n+1}) at every degree of freedom.
C4_EquationOfMotionAllDofs ==
    (notebook = "newmark" /\ pc = "post") => \A i \in Nodes : Residual[i] = 0

\* C4 (amended): after a Newmark step the new state satisfies
\* M a + C v + K u = F(t_{n+1}) at every unconstrained degree of freedom; at a
\* clamped one the solve imposes a = u_D = 0 in place of the equation.
C4_EquationOfMotionFreeDofs ==
    (notebook = "newmark" /\ pc = "post") =>
        /\ \A i \in FreeDofs : Residual[i] = 0
        /\ \A c \in boundary_clamped_dofs : a_sol[c] = u_D

C4_Witness ==
    /\ notebook = "newmark" /\ pc = "post" /\ n >= 1
    /\ eta_m[1] # 0 /\ eta_k[1] # 0 /\ traction # 0
    /\ \A i \in FreeDofs : a_sol[i] # 0 /\ u_sol[i] # 0 /\ v_sol[i] # 0
    /\ \E c \in boundary_clamped_dofs : Residual[c] # 0

\* C5: the Newmark predictor followed by the corrector gives Eq2 and Eq3:
\* u_{n+1} = u_n + dt v_n + dt^2/2 ((1-2 beta) a_n + 2 beta a_{n+1}) and
\* v_{n+1} = v_n + dt ((1-gamma) a_n + gamma a_{n+1}).
C5_NewmarkApproximations ==
    (notebook = "newmark" /\ pc = "post") =>
        LET d == Scalar(dt)
            b == Scalar(beta)
            g == Scalar(gamma)
            half_d2 == Over(Times(d, d), 2)
        IN  \A i \in Nodes :
               /\ u_sol[i] =
                     Plus(Plus(u_n[i], Times(d, v_n[i])),
                          Times(half_d2,
                                Plus(Times(Minus(1, Times(2, b)), a_n[i]),
                                     Times(Times(2, b), a_sol[i]))))
               /\ v_sol[i] =
                     Plus(v_n[i],
                          Times(d, Plus(Times(Minus(1, g), a_n[i]),
                                        Times(g, a_sol[i]))))

C5_Witness ==
    /\ notebook = "newmark" /\ pc = "post" /\ n >= 1
    /\ dt = <<1, 2>> /\ beta[1] # 0
    /\ \A i \in FreeDofs : a_n[i] # 0 /\ v_n[i] # 0 /\ u_n[i] # 0 /\ a_sol[i] # 0

\* The traction of the current iteration has been set.
TractionSet ==
    \/ notebook = "explicit" /\ pc \in {"accel", "solve", "set_bc", "corrector", "post"}
    \/ notebook = "newmark" /\ pc \in {"solve", "corrector", "post"}

\* C6: the load at t is sigma_max*t/t_c for t <= t_c (sigma_max at t = t_c) and
\* 0 for t > t_c; setting it changes nothing but the traction.
C6_LoadSchedule ==
    /\ [](TractionSet =>
            /\ FracLeq(NextTime, t_cutoff) =>
                  Times(traction, Scalar(t_cutoff)) = Times(Scalar(sigma_max), Scalar(NextTime))
            /\ (FracLeq(NextTime, t_cutoff) /\ FracLeq(t_cutoff, NextTime)) =>
                  traction = Scalar(sigma_max)
            /\ ~FracLeq(NextTime, t_cutoff) => traction = 0)
    /\ [][pc = "traction" => UNCHANGED <<params, n, fields, accumulators>>]_vars

C6_Witness ==
    /\ TractionSet /\ traction # 0
    /\ FracLeq(NextTime, t_cutoff) /\ FracLeq(t_cutoff, NextTime)

\* C7: the explicit scheme started from rest with sigma_max = 0 stays at rest:
\* the displacement is u_D at clamped dofs and zero elsewhere, the velocity and
\* the acceleration are zero, after every step (and within every step).
C7_TrivialEquilibrium ==
    (notebook = "explicit" /\ sigma_max[1] = 0) =>
        /\ \A c \in boundary_clamped_dofs : u_sol[c] = u_D
        /\ \A i \in FreeDofs : u_sol[i] = 0
        /\ v_sol = Zero
        /\ a_sol = Zero

C7_Witness ==
    /\ notebook = "explicit" /\ sigma_max[1] = 0
    /\ pc = "done" /\ n = num_steps /\ n >= 2

\* C8: after every corrector the displacement is a fixed point of the
\* boundary-condition applicator, and applying the boundary condition twice
\* equals applying it once.
C8_BCIdempotent ==
    /\ pc = "post" => SetBC(u_sol) = u_sol
    /\ \A x \in {u_sol, v_sol, a_sol} : SetBC(SetBC(x)) = SetBC(x)

C8_Witness ==
    /\ notebook = "explicit" /\ use_lumped_mass /\ pc = "post"
    /\ NetForce(u_n, v_n)[0] # 0
    /\ u_sol[tip] # 0

\* C9: in the lumped-mass step, after the acceleration is computed and before
\* the corrector, clamped dofs of u hold u_D and clamped dofs of v and a hold
\* zero, whatever the unconstrained computation produced; the other dofs keep
\* u_n, v_n and the computed a_{n+1}.
C9_ReimposedBeforeCorrector ==
    (notebook = "explicit" /\ use_lumped_mass /\ pc = "corrector") =>
        /\ \A c \in boundary_clamped_dofs :
              u_sol[c] = u_D /\ v_sol[c] = 0 /\ a_sol[c] = 0
        /\ \A i \in FreeDofs :
              /\ u_sol[i] = u_n[i]
              /\ v_sol[i] = v_n[i]
              /\ a_sol[i] = Times(M_lumped_inv[i], NetForce(u_n, v_n)[i])

C9_Witness ==
    /\ notebook = "explicit" /\ use_lumped_mass /\ pc = "corrector"
    /\ \E c \in boundary_clamped_dofs :
          Times(M_lumped_inv[c], NetForce(u_n, v_n)[c]) # 0
    /\ \A i \in FreeDofs : a_sol[i] # 0

\* The load at the k-th time level, load_eval(k*dt).
LoadAt(k) == load_eval(FracTimesNat(k, dt))

\* Elastic plus kinetic energy recorded after k steps.
MechanicalEnergy(k) == Plus(energies[k][1], energies[k][2])

\* C10: Newmark with gamma = 1/2, beta = 1/4 and no damping conserves the
\* elastic plus kinetic energy over every step whose load is zero at both
\* ends; with zero load after t = 0 the energy is the same after every step.
C10_EnergyConserved ==
    (/\ notebook = "newmark"
     /\ gamma = <<1, 2>> /\ beta = <<1, 4>>
     /\ eta_m[1] = 0 /\ eta_k[1] = 0) =>
        \A k \in 1 .. n :
            (LoadAt(k - 1) = 0 /\ LoadAt(k) = 0) =>
                MechanicalEnergy(k) = MechanicalEnergy(k - 1)

C10_Witness ==
    /\ notebook = "newmark" /\ pc = "done"
    /\ gamma = <<1, 2>> /\ beta = <<1, 4>>
    /\ eta_m[1] = 0 /\ eta_k[1] = 0
    /\ dt = <<1, 2>>
    /\ LoadAt(n - 1) = 0 /\ LoadAt(n) = 0
    /\ MechanicalEnergy(n) # 0
    /\ energies[n][1] # energies[n - 1][1]

\* The order of the statements of the two loops, as pairs of positions.
LoopOrder ==
    {<<"traction", "accel">>, <<"accel", "set_bc">>, <<"set_bc", "corrector">>,
     <<"traction", "solve">>, <<"solve", "corrector">>, <<"corrector", "post">>,
     <<"post", "traction">>, <<"predictor", "traction">>, <<"post", "predictor">>,
     <<"post", "done">>, <<"done", "finished">>,
     <<"solve", "raised">>, <<"post", "raised">>}

\* the two notebooks with a time-stepping loop
TimeStepping == notebook \in {"explicit", "newmark"}

\* The loops keep num_steps and dt, follow the order of their statements, and
\* advance n by one at the end of a body and nowhere else.
StepDiscipline ==
    /\ num_steps' = num_steps /\ dt' = dt
    /\ TimeStepping =>
          /\ <<pc, pc'>> \in LoopOrder
          /\ IF pc = "post" /\ pc' # "raised" THEN n' = n + 1 ELSE n' = n
          /\ pc' = "done" <=> (pc = "post" /\ pc' # "raised" /\ n + 1 = num_steps)

C14_SolveFailurePropagated ==
    /\ [](error = "problem.solve" =>
            /\ pc = "raised"
            /\ n < num_steps
            /\ a_sol = a_n
            /\ IF notebook = "explicit"
               THEN u_sol = u_n /\ v_sol = v_n
               ELSE /\ u_sol = PredictDisplacement(u_n, v_n, a_n)
                    /\ v_sol = PredictVelocity(v_n, a_n)
            /\ energies[n + 1] = ZeroRow)
    /\ [][error = "none"]_vars

C14_Witness ==
    /\ error = "problem.solve" /\ pc = "raised" /\ n >= 2
    /\ notebook = "newmark"
    /\ \A i \in FreeDofs : a_n[i] # 0 /\ u_sol[i] # u_n[i] /\ v_sol[i] # v_n[i]

\* The lines of stdout that report the critical time step.
CriticalLines == {i \in 1 .. Len(stdout) : stdout[i][1] = "Critical time step"}

\* C15: the explicit run never changes dt and never stops because dt exceeds
\* dt_crit: with the lumped mass it always runs its num_steps steps, with the
\* full mass only a failure of the solve stops it; dt_crit = 0.3 h / sqrt(Y/rho)
\* appears only after the loop, printed next to dt.
C15_CriticalStepOnlyReported ==
    /\ [][dt' = dt]_vars
    /\ [](notebook = "explicit" =>
            /\ error \in {"none", "problem.solve"}
            /\ pc # "finished" => CriticalLines = {}
            /\ pc = "finished" =>
                  /\ n = num_steps
                  /\ Len(stdout) >= 2
                  /\ CriticalLines = {Len(stdout) - 1}
                  /\ stdout[Len(stdout) - 1] = <<"Critical time step", <<3 * L, 10 * NumElems>>>>
                  /\ stdout[Len(stdout)] = <<"Used time step", dt>>)
    /\ (notebook = "explicit" /\ use_lumped_mass) => <>(pc = "finished" /\ n = num_steps)

C15_Witness ==
    /\ notebook = "explicit" /\ pc = "finished" /\ n = num_steps
    /\ ~FracLeq(dt, dt_crit)
    /\ u_sol[tip] # 0

\* The acceleration each variant of the explicit step computes from the
\* current displacement, velocity and traction.
LumpedCandidate == SetBC(Multiply(M_lumped_inv, af))

FullMassCandidate == LinearProblemSolve(MassMatrix, af)

\* C16 (as stated): from the same state, load and dt the lumped and the
\* full-mass variant produce the same acceleration, hence the same step.
C16_VariantsAgree ==
    (notebook = "explicit" /\ pc = "corrector") =>
        a_sol = LumpedCandidate /\ a_sol = FullMassCandidate

\* C16 (amended): the two variants differ only in the equation that gives the
\* acceleration at the unconstrained dofs: rowsum(M)_i a_i = (F - K u - C v)_i
\* for the lumped variant, (M a)_i = (F - K u - C v)_i for the full-mass
\* variant; both leave zero at the clamped dofs and leave u and v to the same
\* corrector.
C16_VariantsDifferInMassOnly ==
    (notebook = "explicit" /\ pc = "corrector") =>
        /\ u_sol = u_n /\ v_sol = v_n
        /\ \A c \in boundary_clamped_dofs : a_sol[c] = 0
        /\ \A i \in FreeDofs :
              IF use_lumped_mass
              THEN Times(SumOver(Mmat[i], Nodes), a_sol[i]) = NetForce(u_n, v_n)[i]
              ELSE MatVec(Mmat, a_sol)[i] = NetForce(u_n, v_n)[i]

C16_Witness ==
    /\ notebook = "explicit" /\ pc = "corrector" /\ ~use_lumped_mass /\ n >= 1
    /\ \A i \in FreeDofs : LumpedCandidate[i] # FullMassCandidate[i]

\* eta_m M v + eta_k K v with the matrix K of the linear stiffness
RayleighForce(v) ==
    [i \in Nodes |->
       Plus(Times(Scalar(eta_m), MatVec(Mmat, v)[i]),
            Times(Scalar(eta_k), MatVec(Kmat, v)[i]))]

\* C17 (as stated): the damping response is eta_m M v + eta_k K v with K the
\* stiffness selected for the scheme, linear or nonlinear.
C17_DampingOnSelectedStiffness ==
    \A i \in Nodes :
        damping(v_sol, Basis(i)) =
            Plus(Times(Scalar(eta_m), mass(v_sol, Basis(i))),
                 Times(Scalar(eta_k), stiffness(v_sol, Basis(i))))

\* C17 (amended): the damping response is eta_m M v + eta_k K v with K the
\* linear stiffness, whichever model is selected; the selection changes only
\* the internal force of the right-hand side.
C17_DampingOnLinearStiffness ==
    /\ \A i \in Nodes : damping(v_sol, Basis(i)) = RayleighForce(v_sol)[i]
    /\ (notebook = "explicit" /\ pc = "set_bc") =>
          \A i \in Nodes :
              a_sol[i] = Times(M_lumped_inv[i],
                               Minus(Minus(Fext[i], InternalForce(u_n)[i]),
                                     RayleighForce(v_n)[i]))

C17_Witness ==
    /\ notebook = "explicit" /\ ~use_linear_model /\ pc = "set_bc"
    /\ eta_m[1] # 0 /\ eta_k[1] # 0
    /\ \A i \in FreeDofs :
          /\ v_n[i] # 0
          /\ stiffness_nonlinear(v_n, Basis(i)) # stiffness_linear(v_n, Basis(i))
          /\ stiffness_nonlinear(u_n, Basis(i)) # stiffness_linear(u_n, Basis(i))

\* The external force at the free end for the load at t = (n+1)*dt.
LoadVector == [i \in Nodes |-> IF i = tip THEN load_eval(NextTime) ELSE 0]

\* C18: in the explicit loop the traction of iteration n is the load at
\* (n+1)*dt and is set before the force is assembled; the force is assembled
\* from the displacement and velocity that the corrector of the previous
\* iteration left (zero for n = 0), which nothing changes in between.
C18_ForceFromPreviousStep ==
    /\ [][(notebook = "explicit" /\ pc \in {"post", "traction"}) => UNCHANGED fields]_vars
    /\ [](notebook = "explicit" =>
            /\ pc \in {"accel", "solve"} =>
                  /\ traction = load_eval(NextTime)
                  /\ u_sol = u_n /\ v_sol = v_n
            /\ (n = 0 /\ pc \in {"traction", "accel", "solve"}) =>
                  u_sol = Zero /\ v_sol = Zero
            /\ pc = "set_bc" =>
                  \A i \in Nodes :
                      a_sol[i] = Times(M_lumped_inv[i],
                                       Minus(Minus(LoadVector[i], InternalForce(u_n)[i]),
                                             MatVec(Cmat, v_n)[i]))
            /\ (pc = "corrector" /\ ~use_lumped_mass) =>
                  \A i \in FreeDofs :
                      MatVec(Mmat, a_sol)[i] =
                          Minus(Minus(LoadVector[i], InternalForce(u_n)[i]),
                                MatVec(Cmat, v_n)[i]))

C18_Witness ==
    /\ notebook = "explicit" /\ pc = "set_bc" /\ n >= 1
    /\ load_eval(NextTime) # load_eval(FracTimesNat(n, dt))
    /\ \A i \in FreeDofs : u_n[i] # 0 /\ v_n[i] # 0 /\ a_sol[i] # a_n[i]

\* C19: in the Newmark loop hat u is computed from the v_n and a_n of the
\* previous step (before the velocity is overwritten by hat v), both
\* predictors run before the solve replaces the acceleration, the solve reads
\* the predicted values, and the corrector uses the new acceleration.
C19_NewmarkOrder ==
    notebook = "newmark" =>
        LET u_hat == PredictDisplacement(u_n, v_n, a_n)
            v_hat == PredictVelocity(v_n, a_n)
        IN  /\ pc \in {"traction", "solve"} =>
                  u_sol = u_hat /\ v_sol = v_hat /\ a_sol = a_n
            /\ pc = "corrector" =>
                  /\ u_sol = u_hat /\ v_sol = v_hat
                  /\ \A i \in FreeDofs :
                        MatVec(A_matrix, a_sol)[i] =
                            Minus(Minus(Fext[i], MatVec(Kmat, u_hat)[i]),
                                  MatVec(Cmat, v_hat)[i])
            /\ pc = "post" =>
                  /\ u_sol = CorrectDisplacement(u_hat, a_sol)
                  /\ v_sol = CorrectVelocity(v_hat, a_sol)

C19_Witness ==
    /\ notebook = "newmark" /\ pc = "post" /\ n >= 1
    /\ \A i \in FreeDofs :
          /\ a_n[i] # 0 /\ a_sol[i] # a_n[i]
          /\ PredictVelocity(v_n, a_n)[i] # v_n[i]
          /\ PredictDisplacement(u_n, v_n, a_n)[i] #
                 PredictDisplacement(u_n, PredictVelocity(v_n, a_n), a_n)[i]

\* The snapshot of the step: written exactly when n mod 10 = 0, labelled
\* (n+1)*dt, holding the displacement the corrector left; u, v and a are as
\* before and the energies are those of the step.
SnapshotStep ==
    pc = "post" =>
        /\ snapshots' = IF n % 10 = 0
                        THEN Append(snapshots, <<NextTime, u_sol>>)
                        ELSE snapshots
        /\ UNCHANGED fields
        /\ E_elas' = ElasticEnergy /\ E_kin' = KineticEnergy

\* C20 (as stated): in both loops a snapshot of u_{n+1} labelled (n+1)*dt is
\* written at iteration n exactly when n mod 10 = 0, and writing it changes
\* none of u, v, a or the energies.
C20_SnapshotEveryTenthStep ==
    /\ [][SnapshotStep]_vars
    /\ [][pc # "post" => UNCHANGED snapshots]_vars

\* C20 (explicit notebook only): the same, where the file is reopened in
\* append mode for every write.
C20_ExplicitSnapshots ==
    /\ [][notebook = "explicit" => SnapshotStep]_vars
    /\ [][pc # "post" => UNCHANGED snapshots]_vars
    /\ [](Len(snapshots) <= (n + 9) \div 10)
    /\ [](notebook = "explicit" =>
            /\ pc # "post" => Len(snapshots) = (n + 9) \div 10
            /\ \A j \in 1 .. Len(snapshots) :
                  snapshots[j][1] = FracTimesNat(10 * (j - 1) + 1, dt))

C20_Witness ==
    /\ notebook = "explicit" /\ pc = "finished"
    /\ Len(snapshots) = 2
    /\ snapshots[2][1] = FracTimesNat(11, dt)
    /\ snapshots[2][2] # snapshots[1][2]
    /\ snapshots[1][2] # Zero

\* x . mat x
QuadraticForm(mat, x) == SumOver([i \in Nodes |-> Times(x[i], MatVec(mat, x)[i])], Nodes)

\* E_elas + E_kin + E_damp for the energies as they are after the step
TotalEnergy(elas, kin, damp) ==
    IF use_linear_model
    THEN Plus(Plus(elas, kin), damp)
    ELSE <<Plus(Plus(elas[1], kin), damp), elas[2]>>

\* C21: the energy accumulators change in one step of an iteration only, the
\* one that follows the corrector; there E_elas and E_kin are recomputed from
\* u_{n+1} and v_{n+1}, E_damp grows by dt*c(v_{n+1}, v_{n+1}), and row n+1 of
\* energies, and no other row, becomes (E_elas, E_kin, E_damp, E_tot) with
\* E_tot = E_elas + E_kin + E_damp.
C21_EnergiesOncePerStep ==
    [][/\ pc # "post" => UNCHANGED <<E_elas, E_kin, E_damp, energies>>
       /\ pc = "post" =>
            /\ u_sol' = u_sol /\ v_sol' = v_sol
            /\ E_elas' = IF use_linear_model
                         THEN Times(Over(1, 2), QuadraticForm(Kmat, u_sol))
                         ELSE energy_nonlinear(u_sol)
            /\ E_kin' = Times(Over(1, 2), QuadraticForm(Mmat, v_sol))
            /\ E_damp' = Plus(E_damp, Times(Scalar(dt), QuadraticForm(Cmat, v_sol)))
            /\ energies'[n + 1] = <<E_elas', E_kin', E_damp',
                                    TotalEnergy(E_elas', E_kin', E_damp')>>
            /\ \A k \in DOMAIN energies \ {n + 1} : energies'[k] = energies[k]]_vars

\* C21 witness: a damped linear run after its third step, the dissipated
\* energy grown since the step before, the last row holding the accumulators
C21_Witness ==
    /\ n = 3 /\ pc \in {"traction", "predictor"}
    /\ use_linear_model
    /\ dt = <<1, 2>>
    /\ E_damp # 0 /\ E_damp # energies[2][3]
    /\ energies[3] = <<E_elas, E_kin, E_damp, Plus(Plus(E_elas, E_kin), E_damp)>>
    /\ E_elas # 0 /\ E_kin # 0

\* C22: in the continuation loop of the hyperelastic notebook the displacement
\* is set to zero once, before the first load step, and by no later step; the
\* load steps are taken in the order of the list loads, each under its own
\* load; and the Newton solver of load step i >= 1 starts from the solution
\* obtained at load step i-1 (from the zero displacement at load step 0).
C22_ContinuationFromPreviousSolution ==
    /\ [][notebook = "hyperelastic" =>
            /\ pc = "reset" => (u_beam' = ZeroField /\ load_step' = 0)
            /\ (pc # "reset" /\ u_beam # ZeroField) => u_beam' # ZeroField
            /\ pc = "newton" =>
                  /\ u_0' = u_beam
                  /\ rhog' = <<-loads[load_step][1], loads[load_step][2]>>
            /\ load_step' \in {load_step, load_step + 1}
            /\ load_step' = load_step + 1 => (pc = "assert" /\ pc' = "newton")]_vars
    /\ []((notebook = "hyperelastic" /\ pc \in {"record", "assert", "stopped", "loads_done"}) =>
            /\ load_step \in DOMAIN loads
            /\ u_0 = IF load_step = 0 THEN ZeroField ELSE Solution(loads[load_step - 1])
            /\ \A k \in 0 .. (load_step - 1) : displ[k] = EndDisplacement(Solution(loads[k])))

\* C22 witness: the fourth load step solved, started from the solution of the third
C22_Witness ==
    /\ notebook = "hyperelastic" /\ pc = "record"
    /\ load_step = 3 /\ converged
    /\ rhog = <<-3, 900>>
    /\ u_0 = Solution(loads[2])
    /\ u_beam = Solution(loads[3])

\* C23: in the explicit notebook the output file exists, empty of snapshots,
\* when the loop starts; every snapshot write goes through a handle opened in
\* append mode for that write and closed right after it, so the write never
\* fails on a closed handle, adds one snapshot after those already in the
\* file, and leaves the earlier snapshots as they were.
C23_ExplicitAppendsSnapshots ==
    /\ [](notebook = "explicit" =>
            /\ file = "closed"
            /\ error # "file.write_function"
            /\ pc = "traction" /\ n = 0 => snapshots = <<>>)
    /\ [][notebook = "explicit" =>
            /\ Len(snapshots') >= Len(snapshots)
            /\ \A k \in 1 .. Len(snapshots) : snapshots'[k] = snapshots[k]
            /\ Len(snapshots') = Len(snapshots) + (IF pc = "post" /\ n % 10 = 0 THEN 1 ELSE 0)
            /\ Len(snapshots') > Len(snapshots) =>
                  snapshots'[Len(snapshots')] = <<NextTime, u_sol>>]_vars

\* C23 witness: the explicit loop after its second write, both snapshots in the file
C23_Witness ==
    /\ notebook = "explicit" /\ n = 11
    /\ file = "closed"
    /\ Len(snapshots) = 2
    /\ snapshots[1][1] = dt
    /\ snapshots[2] = <<FracTimesNat(11, dt), u_sol>>
    /\ snapshots[1][2] # snapshots[2][2]

\* C24 (as stated): in the Newmark notebook every snapshot write of the loop,
\* and the close after the loop, act on a handle that is open at that moment.
C24_WritesOnOpenHandle ==
    (notebook = "newmark" /\ ((pc = "post" /\ n % 10 = 0) \/ pc = "done")) => file = "open"

Square(x) == Times(x, x)

\* c(v, v) written as a sum of squares: on every element
\* rho*h/6 * (v_e^2 + v_{e+1}^2 + (v_e + v_{e+1})^2) for the mass and
\* h*Y*eps_e^2 for the linear stiffness, weighted by eta_m and eta_k
DissipatedPower(v) ==
    Plus(Times(Scalar(eta_m),
               SumOver([e \in Elems |->
                          Times(Over(Times(rho, h), 6),
                                Plus(Plus(Square(v[e]), Square(v[e + 1])),
                                     Square(Plus(v[e], v[e + 1]))))], Elems)),
         Times(Scalar(eta_k),
               SumOver([e \in Elems |->
                          Times(Times(h, Y), Square(strain_displacement(v, e)))], Elems)))

\* the weights of the squares are not negative
WeightsNotNegative ==
    /\ eta_m[1] >= 0 /\ eta_m[2] > 0
    /\ eta_k[1] >= 0 /\ eta_k[2] > 0
    /\ dt[1] > 0 /\ dt[2] > 0
    /\ rho > 0 /\ L > 0 /\ Y > 0 /\ NumElems > 0
    /\ Plus(lambda_, Times(2, mu)) = Y

\* C25: with eta_m >= 0 and eta_k >= 0 the dissipated energy E_damp starts at
\* 0 and never decreases, in both stepping loops: a step either leaves it as
\* it is or adds to it dt times a sum of squares with weights that are not
\* negative.
C25_DissipationNeverDecreases ==
    /\ [](TimeStepping =>
            /\ WeightsNotNegative
            /\ ((n = 0 /\ pc # "raised") => E_damp = 0)
            /\ energies[0][3] = 0)
    /\ [][TimeStepping =>
            \/ E_damp' = E_damp
            \/ /\ pc = "post"
               /\ E_damp' = Plus(E_damp, Times(Scalar(dt), DissipatedPower(v_sol)))
               /\ energies'[n + 1][3] = E_damp']_vars

\* C25 witness: a Newmark run with both damping coefficients positive, energy
\* dissipated in each of its first three steps
C25_Witness ==
    /\ notebook = "newmark" /\ n = 3 /\ pc = "predictor"
    /\ eta_m[1] > 0 /\ eta_k[1] > 0
    /\ energies[1][3] # 0
    /\ energies[2][3] # energies[1][3]
    /\ energies[3][3] # energies[2][3]
    /\ E_damp = energies[3][3]

\* (k+1)*dt > t_cutoff: the load of iteration k is evaluated after the cutoff
PastCutoff(k) == ~FracLeq(FracTimesNat(k + 1, dt), t_cutoff)

\* the last iteration whose traction has been set
LastLoaded == IF pc \in {"traction", "done", "finished"} THEN n - 1 ELSE n

\* C26: over a run of the explicit loop the load is evaluated at the times
\* (n+1)*dt, all of them positive, never at t = 0; once an iteration has
\* (n+1)*dt > t_cutoff the traction is zero at that iteration and at every
\* later one.
C26_LoadNeverReactivates ==
    /\ [][(notebook = "explicit" /\ pc = "traction") =>
            /\ NextTime[1] > 0 /\ NextTime[2] > 0
            /\ NextTime[1] * dt[2] = (n + 1) * dt[1] * NextTime[2]
            /\ traction' = IF PastCutoff(n)
                           THEN 0
                           ELSE Over(Times(Scalar(sigma_max), Scalar(NextTime)),
                                     Scalar(t_cutoff))]_vars
    /\ [](notebook = "explicit" =>
            /\ \A k \in 0 .. LastLoaded : PastCutoff(k) => traction = 0
            /\ \A k \in 0 .. (n - 1) : PastCutoff(k) => PastCutoff(k + 1))

\* C26 witness: an explicit run with a load, loaded at its first step, in an
\* iteration at least three steps after the first one past the cutoff
C26_Witness ==
    /\ notebook = "explicit" /\ pc = "post"
    /\ sigma_max[1] # 0
    /\ ~PastCutoff(0) /\ u_sol # Zero
    /\ n >= 4 /\ PastCutoff(n - 3) /\ PastCutoff(n)
    /\ traction = 0

\* the number of iterations that have written their entry of the histories
EntriesWritten == IF pc = "raised" /\ error = "file.write_function" THEN n + 1 ELSE n

\* C27: energies, displ_tip and extension_strain have the num_steps+1 entries
\* 0 .. num_steps; iteration n writes entry n+1 of each, an index of the
\* array, and no other entry; entry 0 is never written and stays zero; n runs
\* over 0 .. num_steps-1 once each, so after the loop every entry
\* 1 .. num_steps has been written exactly once.
C27_HistoryIndices ==
    /\ [](TimeStepping =>
            /\ DOMAIN displ_tip = 0 .. num_steps
            /\ DOMAIN extension_strain = 0 .. num_steps
            /\ DOMAIN energies = 0 .. num_steps
            /\ displ_tip[0] = 0 /\ extension_strain[0] = 0
            /\ energies[0] = ZeroRow
            /\ EntriesWritten \in 0 .. num_steps
            /\ \A k \in (EntriesWritten + 1) .. num_steps :
                  displ_tip[k] = 0 /\ extension_strain[k] = 0 /\ energies[k] = ZeroRow
            /\ pc \in {"done", "finished"} => EntriesWritten = num_steps)
    /\ [][TimeStepping =>
            IF pc = "post"
            THEN /\ n + 1 \in 1 .. num_steps
                 /\ displ_tip'[n + 1] = u_sol[tip]
                 /\ extension_strain'[n + 1] = Over(Minus(u_sol[ProbeCell + 1], u_sol[ProbeCell]), h)
                 /\ energies'[n + 1] = <<E_elas', E_kin', E_damp', energies'[n + 1][4]>>
                 /\ \A k \in (0 .. num_steps) \ {n + 1} :
                       /\ displ_tip'[k] = displ_tip[k]
                       /\ extension_strain'[k] = extension_strain[k]
                       /\ energies'[k] = energies[k]
                 /\ EntriesWritten' = n + 1
            ELSE /\ UNCHANGED <<displ_tip, extension_strain, energies>>
                 /\ EntriesWritten' = EntriesWritten]_vars

\* C27 witness: a loaded run at the end of its loop, the tip displacement and
\* the strain recorded at the first and at the last index
C27_Witness ==
    /\ TimeStepping /\ pc = "done" /\ n = num_steps
    /\ displ_tip[1] # 0 /\ extension_strain[1] # 0
    /\ displ_tip[num_steps] = u_sol[tip] /\ displ_tip[num_steps] # 0
    /\ extension_strain[num_steps] # 0
    /\ energies[num_steps][2] # 0
    /\ displ_tip[num_steps] # displ_tip[num_steps - 1]

\* C28 (as stated): in the continuation loop an end displacement is stored in
\* displ[i] only for the load steps whose Newton solve converged, and a load
\* step that did not converge stops the loop.
C28_StoredOnlyWhenConverged ==
    notebook = "hyperelastic" =>
        /\ \A k \in DOMAIN displ :
              displ[k] # ZeroScalar => displ[k] = EndDisplacement(Solution(loads[k]))
        /\ pc = "stopped" => displ[load_step] = ZeroScalar

\* C28 (what the code does): a load step whose solve did not converge stops
\* the loop, by the exception of the solver or by assert(converged), and no
\* later load step is solved; the end displacement of the failed step has been
\* stored in displ[i] when the assertion fails, and the entries of the later
\* load steps stay zero.
C28_FailedStepStopsLoop ==
    /\ [](notebook = "hyperelastic" /\ pc = "stopped" =>
            /\ error \in {"solver.solve", "assert(converged)"}
            /\ u_beam = Iterate(loads[load_step])
            /\ error = "assert(converged)" =>
                  (~converged /\ displ[load_step] = EndDisplacement(Iterate(loads[load_step])))
            /\ error = "solver.solve" => displ[load_step] = ZeroScalar
            /\ \A k \in (load_step + 1) .. (NumLoads - 1) : displ[k] = ZeroScalar
            /\ \A k \in 0 .. (load_step - 1) : displ[k] = EndDisplacement(Solution(loads[k])))
    /\ [][notebook = "hyperelastic" /\ pc = "stopped" => UNCHANGED vars]_vars
    /\ [][notebook = "hyperelastic" /\ pc = "assert" /\ ~converged =>
            pc' = "stopped" /\ load_step' = load_step]_vars

\* C28 witness: the assertion failed at the third load step, its end
\* displacement stored
C28_Witness ==
    /\ notebook = "hyperelastic" /\ pc = "stopped" /\ error = "assert(converged)"
    /\ load_step = 2
    /\ displ[1] = EndDisplacement(Solution(loads[1]))
    /\ displ[2] = EndDisplacement(Iterate(loads[2]))
    /\ displ[3] = ZeroScalar

====
